---- MODULE Spec2Model ----
(***************************************************************************)
(* Model of pkg/services/listeners/listeners.go: the ListenerService       *)
(* facade over the TCP listener repository, the HTTP listener repository   *)
(* and the HTTP server repository, and the lifecycle it drives on the      *)
(* Server bound to an HTTP-family listener.                                *)
(***************************************************************************)
EXTENDS Integers, Sequences, FiniteSets, TLC

\* ------------------------------------------------------------------ bounds
\* Listener objects ever constructed (each gets a fresh uuid).
MaxListeners == 2
\* Server objects ever constructed (each gets a fresh uuid).
MaxServers == 1
\* Start routines (goroutines) launched and not yet run.
MaxRoutines == 1

\* ------------------------------------------------------------ option maps
\* A string is a sequence of one-character strings, so that letter case is
\* something strings.ToLower works on.
UpperLetters == <<"A","B","C","D","E","F","G","H","I","J","K","L","M",
                  "N","O","P","Q","R","S","T","U","V","W","X","Y","Z">>
LowerLetters == <<"a","b","c","d","e","f","g","h","i","j","k","l","m",
                  "n","o","p","q","r","s","t","u","v","w","x","y","z">>

\* strings.ToLower on one character.
ToLowerChar(c) ==
    IF \E i \in DOMAIN UpperLetters : UpperLetters[i] = c
    THEN LowerLetters[CHOOSE i \in DOMAIN UpperLetters : UpperLetters[i] = c]
    ELSE c

\* Faulty variant: the switch is on options["Protocol"] as given.
ToLower_Missing(s) == s

\* strings.ToLower(options["Protocol"]), line 79.
ToLower(s) == [i \in DOMAIN s |-> ToLowerChar(s[i])]

\* The case labels of the switch in NewListener, lines 81 and 102.
HTTPCases == { <<"h","t","t","p">>, <<"h","t","t","p","s">>, <<"h","2","c">>,
               <<"h","t","t","p","2">>, <<"h","t","t","p","3">> }
TCPCases == { <<"t","c","p">> }

WithProtocol(p, n) ==
    [k \in {"Protocol", "Name"} |-> IF k = "Protocol" THEN p ELSE n]
WithoutProtocol(n) == [k \in {"Name"} |-> n]
EmptyOptions == [k \in {} |-> ""]

\* options[key] of a Go map: the empty string when the key is absent.
Get(options, key) == IF key \in DOMAIN options THEN options[key] ELSE <<>>

\* Option maps handed to NewListener.
OptionInputs ==
    { WithProtocol(<<"h","t","t","p">>, "a"),
      WithProtocol(<<"T","c","P">>, "a"),
      WithProtocol(<<"u","d","p">>, "a"),
      WithoutProtocol("a") }

\* Option maps handed to NewListener where only the dispatch is exercised:
\* every supported name in some letter case, and names that are not supported.
DispatchInputs ==
    { WithProtocol(<<"h","t","t","p">>, "a"),
      WithProtocol(<<"H","T","T","P">>, "a"),
      WithProtocol(<<"H","T","T","P","S">>, "b"),
      WithProtocol(<<"h","2","C">>, "a"),
      WithProtocol(<<"H","t","t","p","2">>, "a"),
      WithProtocol(<<"h","t","t","P","3">>, "a"),
      WithProtocol(<<"t","c","p">>, "a"),
      WithProtocol(<<"T","c","P">>, "b"),
      WithProtocol(<<"u","d","p">>, "a"),
      WithProtocol(<<"H","T","T","P","X">>, "a"),
      WithProtocol(<<"h","t","t">>, "a"),
      WithProtocol(<<>>, "a"),
      WithoutProtocol("a"),
      EmptyOptions }

\* Option maps handed to SetOptions.
OptionUpdates == { WithoutProtocol("b") }

\* The nil Server reference of a Listener that has no Server.
NoServer == 0

\* ------------------------------------------------------------------ state
VARIABLES
    tcpRepo,         \* ls.tcpRepo: listener id -> TCP Listener record
    httpRepo,        \* ls.httpRepo: listener id -> HTTP Listener record
    httpServerRepo,  \* ls.httpServerRepo: server id -> Server record
    nextListener,    \* listeners constructed so far (next fresh id - 1)
    nextServer,      \* servers constructed so far (next fresh id - 1)
    srvState,        \* server id -> state of the Server object
    launched,        \* server id -> start routines launched, not yet run
    last             \* the step just taken: call, arguments and result

vars == <<tcpRepo, httpRepo, httpServerRepo, nextListener, nextServer,
          srvState, launched, last>>

repos == <<tcpRepo, httpRepo, httpServerRepo>>

ListenerIds == 1..MaxListeners
ServerIds == 1..MaxServers

\* listeners.HTTP and listeners.TCP, the values of Listener.Protocol().
HTTP == "HTTP"
TCP == "TCP"

\* The record of a step: the operation, the option map it was given (if
\* any), the switch branch it took, the call whose error it returned (if any)
\* and the result; the Server whose Start or Stop the step called or ran (if
\* any), the Listener value handed back to the caller (if any), and the keys
\* of a returned option map in the order the caller ranges over them.
StepWith(op, options, branch, stage, ret) ==
    [op |-> op, options |-> options, branch |-> branch, stage |-> stage,
     ret |-> ret, server |-> NoServer, returned |-> {}, keys |-> <<>>]
Step(op, branch, stage, ret) == StepWith(op, EmptyOptions, branch, stage, ret)

\* A nil-pointer dereference ends the process: no call follows it.
Alive == last.ret # "panic"

Init ==
    /\ tcpRepo = <<>>
    /\ httpRepo = <<>>
    /\ httpServerRepo = <<>>
    /\ nextListener = 0
    /\ nextServer = 0
    /\ srvState = [s \in ServerIds |-> "None"]
    /\ launched = [s \in ServerIds |-> 0]
    /\ last = Step("NewListenerService", "none", "none", "ok")

\* --------------------------------------------------------- repositories
\* Repository.Add: the record stored under its id.
RepoAdd(repo, id, rec) ==
    [i \in (DOMAIN repo) \cup {id} |-> IF i = id THEN rec ELSE repo[i]]

\* Repository.RemoveByID.
RepoRemove(repo, id) == [i \in (DOMAIN repo) \ {id} |-> repo[i]]

\* Repository.UpdateOptions.
RepoUpdateOptions(repo, id, options) ==
    [repo EXCEPT ![id] = [@ EXCEPT !.options = options]]

\* ------------------------------------------------------------ NewListener
\* The collaborator call that returns an error during one NewListener call.
HTTPFaults == {"none", "httpServer.New", "httpServerRepo.Add",
               "http.NewHTTPListener", "httpRepo.Add"}
TCPFaults == {"none", "tcp.NewTCPListener", "tcpRepo.Add"}
Faults == HTTPFaults \cup TCPFaults

\* httpServer.New(options): a Server object with a fresh id.
NewServer(sid, options) == [id |-> sid]

\* http.NewHTTPListener(&hServer, options): a Listener bound to the Server.
NewHTTPListener(lid, sid, options) ==
    [id |-> lid, name |-> Get(options, "Name"), protocol |-> HTTP,
     options |-> options, server |-> sid]

\* tcp.NewTCPListener(options): a Listener with no Server.
NewTCPListener(lid, options) ==
    [id |-> lid, name |-> Get(options, "Name"), protocol |-> TCP,
     options |-> options, server |-> NoServer]

\* The error a failed collaborator call is reported as.
ErrorOf(fault) ==
    CASE fault = "none" -> "ok"
      [] fault \in {"httpServerRepo.Add", "httpRepo.Add", "tcpRepo.Add"} -> "DuplicateError"
      [] OTHER -> "ConfigurationError"

\* Faulty variant: the error of httpServer.New is not checked before the Add.
ServerPersisted_NewUnchecked(fault) == fault # "httpServerRepo.Add"

\* Faulty variant: the Server is removed again when the Listener cannot be stored.
ServerPersisted_RolledBack(fault) == fault = "none"

\* Lines 82-89: the Server is in the server repository once httpServer.New
\* and httpServerRepo.Add have both returned no error.
ServerPersisted(fault) == fault \notin {"httpServer.New", "httpServerRepo.Add"}

\* Lines 91-99: the Listener is in the HTTP repository once every call of
\* the branch has returned no error.
HTTPListenerPersisted(fault) == fault = "none"

\* Faulty variant: the Listener is built on a Server other than the one stored.
BoundServer_Another(sid) == sid + 1

\* Faulty variant: the Listener is built on a nil Server.
BoundServer_Nil(sid) == NoServer

\* Line 91: the Server handed to http.NewHTTPListener is &hServer, the one
\* given to httpServerRepo.Add on line 86.
BoundServer(sid) == sid

\* case "http", "https", "h2c", "http2", "http3": lines 81-101.
NewListenerHTTP(options, fault) ==
    LET sid == nextServer + 1
        lid == nextListener + 1
        srv == ServerPersisted(fault)
        lis == HTTPListenerPersisted(fault)
        hListener == NewHTTPListener(lid, BoundServer(sid), options)
    IN
    /\ fault \in HTTPFaults
    /\ srv => nextServer < MaxServers
    /\ lis => nextListener < MaxListeners
    /\ httpServerRepo' = IF srv THEN RepoAdd(httpServerRepo, sid, NewServer(sid, options))
                         ELSE httpServerRepo
    /\ nextServer' = IF srv THEN sid ELSE nextServer
    /\ srvState' = IF srv THEN [srvState EXCEPT ![sid] = "Created"] ELSE srvState
    /\ httpRepo' = IF lis THEN RepoAdd(httpRepo, lid, hListener) ELSE httpRepo
    /\ nextListener' = IF lis THEN lid ELSE nextListener
    /\ last' = [StepWith("NewListener", options, "http", fault, ErrorOf(fault))
                  EXCEPT !.returned = IF lis THEN {hListener} ELSE {}]
    /\ UNCHANGED <<tcpRepo, launched>>

\* Lines 104-112: the Listener is in the TCP repository once
\* tcp.NewTCPListener and tcpRepo.Add have both returned no error.
TCPListenerPersisted(fault) == fault = "none"

\* case "tcp": lines 102-114.
NewListenerTCP(options, fault) ==
    LET lid == nextListener + 1
        lis == TCPListenerPersisted(fault)
        tListener == NewTCPListener(lid, options)
    IN
    /\ fault \in TCPFaults
    /\ lis => nextListener < MaxListeners
    /\ tcpRepo' = IF lis THEN RepoAdd(tcpRepo, lid, tListener) ELSE tcpRepo
    /\ nextListener' = IF lis THEN lid ELSE nextListener
    /\ last' = [StepWith("NewListener", options, "tcp", fault, ErrorOf(fault))
                  EXCEPT !.returned = IF lis THEN {tListener} ELSE {}]
    /\ UNCHANGED <<httpRepo, httpServerRepo, nextServer, srvState, launched>>

\* The switch on strings.ToLower(options["Protocol"]), line 79.
Dispatch(options) ==
    LET p == ToLower(Get(options, "Protocol")) IN
    IF p \in HTTPCases THEN "http"
    ELSE IF p \in TCPCases THEN "tcp"
    ELSE "default"

\* Faulty variant: the presence test looks up another key.
HasProtocol_OtherKey(options) == "Name" \in DOMAIN options

\* The presence test on options["Protocol"], line 75.
HasProtocol(options) == "Protocol" \in DOMAIN options

\* ListenerService.NewListener, lines 73-118.
NewListener(options, fault) ==
    /\ Alive
    /\ IF ~HasProtocol(options)
       THEN /\ fault = "none"
            /\ last' = StepWith("NewListener", options, "none", "none",
                                "ValidationError")
            /\ UNCHANGED <<repos, nextListener, nextServer, srvState, launched>>
       ELSE CASE Dispatch(options) = "http" -> NewListenerHTTP(options, fault)
              [] Dispatch(options) = "tcp" -> NewListenerTCP(options, fault)
              [] OTHER ->
                   /\ fault = "none"
                   /\ last' = StepWith("NewListener", options, "default", "none",
                                       "UnsupportedProtocolError")
                   /\ UNCHANGED <<repos, nextListener, nextServer, srvState,
                                  launched>>

\* Faulty variant: the lookup probes the HTTP repository only.
Found_HTTPOnly(id) == id \in DOMAIN httpRepo

\* ------------------------------------------------------------- lookups
\* Whether ListenerService.Listener(id) finds a record, lines 185-192.
Found(id) == id \in DOMAIN httpRepo \/ id \in DOMAIN tcpRepo

\* ListenerService.Listener(id), lines 184-194: the HTTP repository is
\* probed first, then the TCP repository.
Listener(id) == IF id \in DOMAIN httpRepo THEN httpRepo[id] ELSE tcpRepo[id]

\* ListenerService.Listeners(), lines 197-209.
Listeners ==
    {httpRepo[i] : i \in DOMAIN httpRepo} \cup {tcpRepo[i] : i \in DOMAIN tcpRepo}

\* A call that only reports an error, or panics, and changes nothing.
Fails(op, branch, stage, ret) ==
    /\ last' = Step(op, branch, stage, ret)
    /\ UNCHANGED <<repos, nextListener, nextServer, srvState, launched>>

\* ----------------------------------------------------- Remove, SetOptions
\* Faulty variant: both cases of the switch call the HTTP repository.
RemoveRepo_BothHTTP(protocol) == "http"

\* The switch on listener.Protocol() of Remove, lines 263-270: the
\* repository whose RemoveByID is called.
RemoveRepo(protocol) ==
    CASE protocol = HTTP -> "http"
      [] protocol = TCP -> "tcp"
      [] OTHER -> "none"

\* Lines 263-270: Remove makes no call on the server repository.
ServerRepoAfterRemove(id) == httpServerRepo

\* ListenerService.Remove, lines 257-271.  The result is that of the
\* repository's RemoveByID, which fails when the id is not in it.
Remove(id) ==
    /\ Alive
    /\ IF ~Found(id)
       THEN Fails("Remove", "none", "Listener", "NotFoundError")
       ELSE LET l == Listener(id)
                target == RemoveRepo(l.protocol)
                repo == IF target = "http" THEN httpRepo ELSE tcpRepo
                hit == target # "none" /\ id \in DOMAIN repo
            IN
            /\ httpRepo' = IF target = "http" /\ hit THEN RepoRemove(httpRepo, id)
                           ELSE httpRepo
            /\ tcpRepo' = IF target = "tcp" /\ hit THEN RepoRemove(tcpRepo, id)
                          ELSE tcpRepo
            /\ httpServerRepo' = ServerRepoAfterRemove(id)
            /\ last' = IF hit THEN Step("Remove", l.protocol, "none", "ok")
                       ELSE IF target = "none"
                       THEN Step("Remove", l.protocol, "none", "UnsupportedProtocolError")
                       ELSE Step("Remove", l.protocol, "RemoveByID", "NotFoundError")
            /\ UNCHANGED <<nextListener, nextServer, srvState, launched>>

\* Faulty variant: both cases of the switch call the HTTP repository.
SetOptionsRepo_BothHTTP(protocol) == "http"

\* The switch on listener.Protocol() of SetOptions, lines 295-302: the
\* repository whose UpdateOptions is called.
SetOptionsRepo(protocol) ==
    CASE protocol = HTTP -> "http"
      [] protocol = TCP -> "tcp"
      [] OTHER -> "none"

\* ListenerService.SetOptions, lines 290-303.  The result is that of the
\* repository's UpdateOptions, which fails when the id is not in it.
SetOptions(id, options) ==
    /\ Alive
    /\ IF ~Found(id)
       THEN /\ last' = StepWith("SetOptions", options, "none", "Listener",
                                 "NotFoundError")
            /\ UNCHANGED <<repos, nextListener, nextServer, srvState, launched>>
       ELSE LET l == Listener(id)
                target == SetOptionsRepo(l.protocol)
                repo == IF target = "http" THEN httpRepo ELSE tcpRepo
                hit == target # "none" /\ id \in DOMAIN repo
            IN
            /\ httpRepo' = IF target = "http" /\ hit
                           THEN RepoUpdateOptions(httpRepo, id, options)
                           ELSE httpRepo
            /\ tcpRepo' = IF target = "tcp" /\ hit
                          THEN RepoUpdateOptions(tcpRepo, id, options)
                          ELSE tcpRepo
            /\ last' = IF hit
                       THEN StepWith("SetOptions", options, l.protocol, "none", "ok")
                       ELSE IF target = "none"
                       THEN StepWith("SetOptions", options, l.protocol, "none",
                                     "UnsupportedProtocolError")
                       ELSE StepWith("SetOptions", options, l.protocol,
                                     "UpdateOptions", "NotFoundError")
            /\ UNCHANGED <<httpServerRepo, nextListener, nextServer, srvState,
                           launched>>

\* ------------------------------------------------------------ lifecycle
\* Server.Stop(): a synchronous stop request; it either leaves the Server
\* Stopped or returns an error and leaves it as it was.
ServerStop(s, stopErr) ==
    IF stopErr THEN srvState ELSE [srvState EXCEPT ![s] = "Stopped"]

\* Faulty variant: no routine is launched for a Server that is Running.
Launch_UnlessRunning(s) ==
    IF srvState[s] = "Running" THEN launched ELSE [launched EXCEPT ![s] = @ + 1]

\* go server.Start(), lines 285 and 316: one more start routine is
\* scheduled; the caller does not run it.
Launch(s) == [launched EXCEPT ![s] = @ + 1]

RECURSIVE Sum(_, _)
Sum(f, S) == IF S = {} THEN 0
             ELSE LET x == CHOOSE x \in S : TRUE IN f[x] + Sum(f, S \ {x})

\* Start routines launched and not yet run.
Routines == Sum(launched, ServerIds)

\* Room for one more start routine.
CanLaunch(s) == Routines < MaxRoutines

\* Faulty variant: the switch has no TCP case, so a TCP listener takes the default.
StartResult_NoTCPCase(protocol) ==
    CASE protocol = HTTP -> "ok"
      [] OTHER -> "UnsupportedProtocolError"

\* The protocol switch of Start, lines 312-323: the result of the call.
StartResult(protocol) ==
    CASE protocol = HTTP -> "ok"
      [] protocol = TCP -> "ok"
      [] OTHER -> "UnsupportedProtocolError"

\* Faulty variant: server.Start() is called without the go statement.
StartIsAsync_Inline == FALSE

\* Line 316: server.Start() runs under the go statement.
StartIsAsync == TRUE

\* ListenerService.Start, lines 306-324.
Start(id) ==
    /\ Alive
    /\ IF ~Found(id)
       THEN Fails("Start", "none", "Listener", "NotFoundError")
       ELSE LET l == Listener(id) IN
            IF l.protocol = HTTP
            THEN /\ CanLaunch(l.server)
                 /\ IF StartIsAsync
                    THEN /\ launched' = Launch(l.server)
                         /\ last' = [Step("Start", HTTP, "none", StartResult(HTTP))
                                       EXCEPT !.server = l.server]
                         /\ UNCHANGED srvState
                    ELSE \* the caller itself enters the serve loop
                         /\ srvState' = [srvState EXCEPT ![l.server] = "Running"]
                         /\ last' = [Step("Start", HTTP, "none", "blocked")
                                       EXCEPT !.server = l.server]
                         /\ UNCHANGED launched
                 /\ UNCHANGED <<repos, nextListener, nextServer>>
            ELSE /\ last' = Step("Start", l.protocol, "none",
                                 StartResult(l.protocol))
                 /\ UNCHANGED <<repos, nextListener, nextServer, srvState,
                                launched>>

\* ListenerService.Stop, lines 327-335.  Line 333 dereferences
\* listener.Server() whatever the listener's protocol.
Stop(id, stopErr) ==
    /\ Alive
    /\ IF ~Found(id)
       THEN /\ ~stopErr
            /\ Fails("Stop", "none", "Listener", "NotFoundError")
       ELSE LET l == Listener(id) IN
            IF l.server = NoServer
            THEN /\ ~stopErr
                 /\ Fails("Stop", l.protocol, "*listener.Server()", "panic")
            ELSE /\ srvState' = ServerStop(l.server, stopErr)
                 /\ last' = [Step("Stop", l.protocol,
                                  IF stopErr THEN "server.Stop" ELSE "none",
                                  IF stopErr THEN "StopError" ELSE "ok")
                               EXCEPT !.server = l.server]
                 /\ UNCHANGED <<repos, nextListener, nextServer, launched>>

\* Faulty variant: the error of server.Stop() is not checked before the launch.
RestartLaunches_Always(stopErr) == TRUE

\* Faulty variant: Restart stops the Server and launches nothing.
RestartLaunches_Never(stopErr) == FALSE

\* Lines 281-285: Restart reaches go server.Start() only when server.Stop()
\* returned no error.
RestartLaunches(stopErr) == ~stopErr

\* ListenerService.Restart, lines 274-287.  Line 280 dereferences
\* listener.Server() whatever the listener's protocol.
Restart(id, stopErr) ==
    /\ Alive
    /\ IF ~Found(id)
       THEN /\ ~stopErr
            /\ Fails("Restart", "none", "Listener", "NotFoundError")
       ELSE LET l == Listener(id) IN
            IF l.server = NoServer
            THEN /\ ~stopErr
                 /\ Fails("Restart", l.protocol, "*listener.Server()", "panic")
            ELSE /\ RestartLaunches(stopErr) => CanLaunch(l.server)
                 /\ srvState' = ServerStop(l.server, stopErr)
                 /\ launched' = IF RestartLaunches(stopErr) THEN Launch(l.server)
                                ELSE launched
                 /\ last' = [Step("Restart", l.protocol,
                                  IF stopErr THEN "server.Stop" ELSE "none",
                                  IF stopErr THEN "StopError" ELSE "ok")
                               EXCEPT !.server = l.server]
                 /\ UNCHANGED <<repos, nextListener, nextServer>>

\* ------------------------------------------------------- start routines
\* A launched server.Start() runs: it either enters the serve loop, where it
\* stays until the Server is stopped, and the Server is Running, or it fails
\* at once and returns.
RoutineBegin(s, ok) ==
    /\ Alive
    /\ launched[s] > 0
    /\ launched' = [launched EXCEPT ![s] = @ - 1]
    /\ srvState' = IF ok THEN [srvState EXCEPT ![s] = "Running"] ELSE srvState
    /\ last' = [Step("server.Start", "none", "none",
                     IF ok THEN "serving" ELSE "failed")
                  EXCEPT !.server = s]
    /\ UNCHANGED <<repos, nextListener, nextServer>>

\* Faulty variant: the caller's value is the stored record itself.
StoredAfterMutation_Shared(repo, id, options) ==
    IF id \in DOMAIN repo THEN RepoUpdateOptions(repo, id, options) ELSE repo

\* Lines 96-100 and 109-113: the repository's Add received the Listener by
\* value and the caller received the address of NewListener's local variable,
\* so a write through that address does not reach the repository.
StoredAfterMutation(repo, id, options) == repo

\* The caller of NewListener writes an option map into the Listener value it
\* was handed.
MutateReturned(options) ==
    /\ Alive
    /\ last.op \in {"NewListener", "MutateReturned"}
    /\ \E l \in last.returned :
          /\ httpRepo' = StoredAfterMutation(httpRepo, l.id, options)
          /\ tcpRepo' = StoredAfterMutation(tcpRepo, l.id, options)
          /\ last' = [StepWith("MutateReturned", options, l.protocol, "none", "ok")
                        EXCEPT !.returned = {[l EXCEPT !.options = options]}]
    /\ UNCHANGED <<httpServerRepo, nextListener, nextServer, srvState, launched>>

\* ------------------------------------------------------- ListenerByName
\* Names looked up by ListenerByName.
NameInputs == {"a", "b"}

\* Repository.ListenerByName: the records stored under the name, one of which
\* is returned; none when the name is not in the repository.
RepoByName(repo, name) == { repo[i] : i \in { j \in DOMAIN repo : repo[j].name = name } }

\* Faulty variant: the TCP repository is probed first.
ByName_TCPFirst(name) ==
    IF RepoByName(tcpRepo, name) # {}
    THEN [branch |-> TCP, found |-> RepoByName(tcpRepo, name)]
    ELSE [branch |-> HTTP, found |-> RepoByName(httpRepo, name)]

\* Lines 228-236: the HTTP repository is probed and its hit returned; the TCP
\* repository is probed only after the HTTP probe failed.
ByName(name) ==
    IF RepoByName(httpRepo, name) # {}
    THEN [branch |-> HTTP, found |-> RepoByName(httpRepo, name)]
    ELSE [branch |-> TCP, found |-> RepoByName(tcpRepo, name)]

\* ListenerService.ListenerByName, lines 227-237.
ListenerByName(name) ==
    /\ Alive
    /\ LET r == ByName(name) IN
       IF r.found = {}
       THEN last' = Step("ListenerByName", "none", "ListenerByName", "NotFoundError")
       ELSE \E l \in r.found :
               last' = [Step("ListenerByName", r.branch, "none", "ok")
                          EXCEPT !.returned = {l}]
    /\ UNCHANGED <<repos, nextListener, nextServer, srvState, launched>>

\* -------------------------------------------------------- DefaultOptions
\* The permutations of a finite set, as sequences.
Orders(S) ==
    { f \in [1..Cardinality(S) -> S] : \A i, j \in DOMAIN f : f[i] = f[j] => i = j }

\* The byte order of the letters: upper case before lower case.
Letters == UpperLetters \o LowerLetters
Rank(c) == CHOOSE i \in DOMAIN Letters : Letters[i] = c

\* a < b on Go strings: at the first position where they differ a has the
\* smaller byte, or a is a proper prefix of b.
LexLess(a, b) ==
    \E i \in 1..(Len(a) + 1) :
       /\ \A j \in 1..(i - 1) : j <= Len(b) /\ a[j] = b[j]
       /\ \/ i = Len(a) + 1 /\ Len(b) >= i
          \/ i <= Len(a) /\ i <= Len(b) /\ Rank(a[i]) < Rank(b[i])

StrictlyAscending(keys) ==
    \A i \in 1..(Len(keys) - 1) : LexLess(keys[i], keys[i + 1])

\* sort.Strings on the keys collected from a map, lines 163-167.
RECURSIVE SortStrings(_)
SortStrings(S) ==
    IF S = {} THEN <<>>
    ELSE LET least == CHOOSE x \in S : \A y \in S \ {x} : LexLess(x, y)
         IN <<least>> \o SortStrings(S \ {least})

\* Option keys.
KName == <<"N","a","m","e">>
KPSK == <<"P","S","K">>
KProtocol == <<"P","r","o","t","o","c","o","l">>
KInterface == <<"I","n","t","e","r","f","a","c","e">>
KPort == <<"P","o","r","t">>

\* http.DefaultOptions(), httpServer.GetDefaultOptions() and
\* tcp.DefaultOptions(): the option sets of the factories.
HTTPListenerDefaults ==
    [k \in {KName, KPSK, KProtocol} |-> IF k = KProtocol THEN "listener" ELSE "l"]
HTTPServerDefaults == [k \in {KInterface, KPort, KProtocol} |-> "s"]
TCPListenerDefaults == [k \in {KName, KInterface, KPort} |-> "l"]

\* listeners.FromString: the kind of listener a protocol name stands for.
FromString(protocol) ==
    LET p == ToLower(protocol) IN
    IF p \in HTTPCases THEN HTTP ELSE IF p \in TCPCases THEN TCP ELSE "UNKNOWN"

\* Lines 158-160: the server options are written over the listener options.
Merged(listenerOptions, serverOptions) ==
    [k \in DOMAIN listenerOptions \cup DOMAIN serverOptions |->
        IF k \in DOMAIN serverOptions THEN serverOptions[k] ELSE listenerOptions[k]]

\* Lines 169-172: the map built by ranging over the sorted keys.  A Go map
\* keeps no order, so it is a function of the keys alone.
MapOf(keys, m) == [k \in { keys[i] : i \in DOMAIN keys } |-> m[k]]

\* ListenerService.DefaultOptions, lines 141-174: the returned map and error.
DefaultOptions(protocol) ==
    LET kind == FromString(protocol)
        listenerOptions ==
            IF kind = HTTP THEN Merged(HTTPListenerDefaults, HTTPServerDefaults)
            ELSE Merged(TCPListenerDefaults, EmptyOptions)
        keys == SortStrings(DOMAIN listenerOptions)
    IN
    IF kind \in {HTTP, TCP}
    THEN [ret |-> "ok", branch |-> kind, options |-> MapOf(keys, listenerOptions)]
    ELSE [ret |-> "UnsupportedProtocolError", branch |-> "none",
          options |-> EmptyOptions]

\* Protocol names handed to DefaultOptions.
DefaultInputs == { <<"h","t","t","p">>, <<"H","T","T","P","S">>, <<"t","c","p">>,
                   <<"u","d","p">> }

\* A call of DefaultOptions whose caller then ranges over the returned map.
\* The order in which a Go map is ranged over is unspecified: every order of
\* its keys is a possible one.
DefaultOptionsCall(protocol) ==
    /\ Alive
    /\ LET r == DefaultOptions(protocol) IN
       \E order \in Orders(DOMAIN r.options) :
          last' = [StepWith("DefaultOptions", r.options, r.branch, "none", r.ret)
                     EXCEPT !.keys = order]
    /\ UNCHANGED <<repos, nextListener, nextServer, srvState, launched>>

\* ------------------------------------------------------------------ spec
Next ==
    \/ \E options \in OptionInputs, fault \in Faults : NewListener(options, fault)
    \/ \E id \in ListenerIds : Remove(id)
    \/ \E id \in ListenerIds, options \in OptionUpdates : SetOptions(id, options)
    \/ \E id \in ListenerIds : Start(id)
    \/ \E id \in ListenerIds, stopErr \in BOOLEAN : Stop(id, stopErr)
    \/ \E id \in ListenerIds, stopErr \in BOOLEAN : Restart(id, stopErr)
    \/ \E s \in ServerIds, ok \in BOOLEAN : RoutineBegin(s, ok)
    \/ \E options \in OptionUpdates : MutateReturned(options)
    \/ \E name \in NameInputs : ListenerByName(name)

Spec == Init /\ [][Next]_vars

\* NewListener alone, over the wider set of option maps.
NextDispatch ==
    \/ \E options \in DispatchInputs, fault \in Faults : NewListener(options, fault)
    \/ \E id \in ListenerIds : Remove(id)

SpecDispatch == Init /\ [][NextDispatch]_vars

\* The lifecycle calls alone, with the launched start routines of every
\* Server eventually scheduled: the Go scheduler runs every goroutine that is
\* ready to run.
NextLifecycle ==
    \/ \E options \in OptionInputs, fault \in Faults : NewListener(options, fault)
    \/ \E id \in ListenerIds : Start(id)
    \/ \E id \in ListenerIds, stopErr \in BOOLEAN : Stop(id, stopErr)
    \/ \E id \in ListenerIds, stopErr \in BOOLEAN : Restart(id, stopErr)
    \/ \E s \in ServerIds, ok \in BOOLEAN : RoutineBegin(s, ok)

SpecLifecycleFair ==
    /\ Init
    /\ [][NextLifecycle]_vars
    /\ \A s \in ServerIds : WF_vars(\E ok \in BOOLEAN : RoutineBegin(s, ok))

\* DefaultOptions alone.
NextDefaults == \E protocol \in DefaultInputs : DefaultOptionsCall(protocol)

SpecDefaults == Init /\ [][NextDefaults]_vars

\* ================================================================ claims
\* The records of a repository before a step are all still there after it.
Kept(repo, repoAfter) ==
    /\ DOMAIN repo \subseteq DOMAIN repoAfter
    /\ \A i \in DOMAIN repo : repoAfter[i] = repo[i]

\* The repository after a step holds exactly one record more, under id.
OneMore(repo, repoAfter, id) ==
    /\ id \notin DOMAIN repo
    /\ DOMAIN repoAfter = DOMAIN repo \cup {id}
    /\ Kept(repo, repoAfter)

\* C1: when Server construction (httpServer.New) fails during an HTTP-family
\* NewListener call, the call returns an error and the HTTP server repository,
\* the HTTP listener repository and the TCP listener repository hold exactly
\* the records they held before, so Listeners() shows no new entry.
C1_ServerConstructionFailureKeepsRepos ==
    [][(last'.op = "NewListener" /\ last'.stage = "httpServer.New")
       => /\ last'.ret = "ConfigurationError"
          /\ httpServerRepo' = httpServerRepo
          /\ httpRepo' = httpRepo
          /\ tcpRepo' = tcpRepo
          /\ Listeners' = Listeners]_vars

C1_Witness ==
    /\ last.op = "NewListener"
    /\ last.stage = "httpServer.New"
    /\ last.ret = "ConfigurationError"
    /\ DOMAIN httpRepo # {}
    /\ DOMAIN tcpRepo # {}

\* C2: after a successful HTTP-family NewListener call the server repository
\* holds exactly one more Server, the HTTP listener repository exactly one
\* more Listener, the TCP repository is unchanged, and the Server reference
\* of the new Listener is the id of the Server this call added.
C2_SuccessfulHTTPCreationAddsBoundPair ==
    [][(last'.op = "NewListener" /\ last'.branch = "http" /\ last'.ret = "ok")
       => /\ tcpRepo' = tcpRepo
          /\ \E sid \in ServerIds, lid \in ListenerIds :
                /\ OneMore(httpServerRepo, httpServerRepo', sid)
                /\ OneMore(httpRepo, httpRepo', lid)
                /\ httpRepo'[lid].server = sid
                /\ httpServerRepo'[httpRepo'[lid].server].id = sid]_vars

C2_Witness ==
    /\ last.op = "NewListener"
    /\ last.branch = "http"
    /\ last.ret = "ok"
    /\ DOMAIN tcpRepo # {}

\* C3: in every reachable state every Listener in the TCP repository carries
\* no Server reference and every Listener in the HTTP repository carries
\* exactly one Server reference.
C3_ServerReferenceByRepository ==
    /\ \A i \in DOMAIN tcpRepo : tcpRepo[i].server = NoServer
    /\ \A i \in DOMAIN httpRepo :
          /\ httpRepo[i].server # NoServer
          /\ httpRepo[i].server \in ServerIds

C3_Witness ==
    /\ DOMAIN tcpRepo # {}
    /\ DOMAIN httpRepo # {}
    /\ last.op \in {"SetOptions", "Restart", "Stop", "Start"}
    /\ last.ret = "ok"

\* C4 (as claimed): Stop(id) and Restart(id) on a stored TCP listener, which
\* has no bound Server, return success and change nothing.  Every step of the
\* model that is not a success leaves everything but the step record alone,
\* so what is at stake is the result of the call.
C4_StopRestartOnTCPSucceed ==
    (last.op \in {"Stop", "Restart"} /\ last.branch = TCP) => last.ret = "ok"

\* C5: Start(id) on a stored TCP listener returns success in the call itself,
\* launches no start routine and changes the state of no Server (and no
\* repository).
C5_StartOnTCPIsNoOp ==
    [][(last'.op = "Start" /\ last'.branch = TCP)
       => /\ last'.ret = "ok"
          /\ launched' = launched
          /\ srvState' = srvState
          /\ UNCHANGED repos]_vars

C5_Witness ==
    /\ last.op = "Start"
    /\ last.branch = TCP
    /\ last.ret = "ok"
    /\ \E s \in ServerIds : srvState[s] = "Running"

\* C6: when the Server's Stop returns a failure during Restart(id) on an
\* HTTP-family listener, this Restart launches no start routine and returns
\* that failure.
C6_RestartStopsOnStopFailure ==
    [][\A id \in DOMAIN httpRepo :
          (last'.op = "Restart" /\ Restart(id, TRUE))
          => /\ last'.ret = "StopError"
             /\ last'.stage = "server.Stop"
             /\ launched' = launched
             /\ srvState' = srvState]_vars

C6_Witness ==
    /\ last.op = "Restart"
    /\ last.ret = "StopError"
    /\ \E s \in ServerIds : srvState[s] = "Running" /\ launched[s] = 0

\* C7: Start(id) on an HTTP-family listener returns success without waiting
\* for the Server's start routine: at the return the routine has been handed
\* to the scheduler and has not run, and the Server is as it was.
C7_StartReturnsBeforeRoutineRuns ==
    [][\A id \in DOMAIN httpRepo :
          (last'.op = "Start" /\ Start(id))
          => LET s == httpRepo[id].server IN
             /\ last'.ret = "ok"
             /\ launched' = [launched EXCEPT ![s] = @ + 1]
             /\ srvState' = srvState]_vars

C7_Witness ==
    /\ last.op = "Start"
    /\ last.branch = HTTP
    /\ last.ret = "ok"
    /\ \E s \in ServerIds : launched[s] > 0 /\ srvState[s] = "Created"

\* C8: for an option map without the "Protocol" key NewListener returns a
\* validation error and no repository gains, loses or changes a record.
C8_MissingProtocolRejected ==
    [][(last'.op = "NewListener" /\ "Protocol" \notin DOMAIN last'.options)
       => /\ last'.ret = "ValidationError"
          /\ httpServerRepo' = httpServerRepo
          /\ httpRepo' = httpRepo
          /\ tcpRepo' = tcpRepo]_vars

C8_Witness ==
    /\ last.op = "NewListener"
    /\ last.ret = "ValidationError"
    /\ DOMAIN httpRepo # {}
    /\ DOMAIN tcpRepo # {}

\* C9: when Listener construction or Listener persistence fails after the
\* Server was added, NewListener returns an error, no Listener record is
\* added, and the Server added by this call stays in the server repository.
C9_ListenerFailureOrphansServer ==
    [][(last'.op = "NewListener"
        /\ last'.stage \in {"http.NewHTTPListener", "httpRepo.Add"})
       => /\ last'.ret \in {"ConfigurationError", "DuplicateError"}
          /\ httpRepo' = httpRepo
          /\ tcpRepo' = tcpRepo
          /\ \E sid \in ServerIds : OneMore(httpServerRepo, httpServerRepo', sid)]_vars

C9_Witness ==
    /\ last.op = "NewListener"
    /\ last.stage \in {"http.NewHTTPListener", "httpRepo.Add"}
    /\ \E sid \in DOMAIN httpServerRepo :
          \A lid \in DOMAIN httpRepo : httpRepo[lid].server # sid

\* Two characters that are equal when letter case is ignored.
SameLetter(c, d) ==
    \/ c = d
    \/ \E i \in DOMAIN UpperLetters :
          {c, d} = {UpperLetters[i], LowerLetters[i]}

\* Two strings that are equal when letter case is ignored.
EqualFold(a, b) ==
    /\ Len(a) = Len(b)
    /\ \A i \in 1..Len(a) : SameLetter(a[i], b[i])

\* The supported protocol names, as the specification lists them.
HTTPFamilyNames == { <<"H","T","T","P">>, <<"H","T","T","P","S">>, <<"H","2","C">>,
                     <<"H","T","T","P","2">>, <<"H","T","T","P","3">> }
RawSocketName == <<"T","C","P">>

\* C10: NewListener dispatches on "Protocol" ignoring letter case: an
\* HTTP-family name takes the HTTP branch (Server plus Listener), tcp takes
\* the raw-socket branch (a Listener in the TCP repository only, with no
\* Server), and any other value is rejected as unsupported and adds nothing.
C10_CaseInsensitiveDispatch ==
    [][(last'.op = "NewListener" /\ "Protocol" \in DOMAIN last'.options)
       => LET p == last'.options["Protocol"] IN
          CASE \E n \in HTTPFamilyNames : EqualFold(p, n) ->
                 /\ last'.branch = "http"
                 /\ tcpRepo' = tcpRepo
                 /\ last'.ret = "ok" =>
                      \E sid \in ServerIds, lid \in ListenerIds :
                         /\ OneMore(httpServerRepo, httpServerRepo', sid)
                         /\ OneMore(httpRepo, httpRepo', lid)
            [] EqualFold(p, RawSocketName) ->
                 /\ last'.branch = "tcp"
                 /\ httpRepo' = httpRepo
                 /\ httpServerRepo' = httpServerRepo
                 /\ last'.ret = "ok" =>
                      \E lid \in ListenerIds :
                         /\ OneMore(tcpRepo, tcpRepo', lid)
                         /\ tcpRepo'[lid].server = NoServer
            [] OTHER ->
                 /\ last'.ret = "UnsupportedProtocolError"
                 /\ UNCHANGED repos]_vars

C10_Witness ==
    /\ last.op = "NewListener"
    /\ last.ret = "UnsupportedProtocolError"
    /\ \E i \in DOMAIN httpRepo :
          httpRepo[i].options["Protocol"] = <<"H","T","T","P","S">>
    /\ \E i \in DOMAIN tcpRepo :
          tcpRepo[i].options["Protocol"] = <<"T","c","P">>

\* The result of ListenerService.Listener, lines 184-194: the error of line
\* 193 when neither probe finds the id.
ListenerRet(id) == IF Found(id) THEN "ok" ELSE "NotFoundError"

\* Some repository holds a listener under the id.
Stored(id) == id \in DOMAIN httpRepo \/ id \in DOMAIN tcpRepo

\* C11: Listener(id) returns not-found exactly when neither listener
\* repository holds the id; right after NewListener has added a listener the
\* lookup of its id returns the added record; right after a successful
\* Remove(id) the lookup of id returns not-found.
C11_LookupReflectsRepositories ==
    [][
        /\ \A id \in ListenerIds :
             /\ (ListenerRet(id) = "NotFoundError") <=> ~Stored(id)
             /\ (ListenerRet(id)' = "NotFoundError") <=> ~Stored(id)'
        /\ (last'.op = "NewListener" /\ last'.ret = "ok")
             => \E lid \in ListenerIds :
                   /\ ~Stored(lid)
                   /\ ListenerRet(lid)' = "ok"
                   /\ Listener(lid)' \in Listeners' \ Listeners
                   /\ Listener(lid)'.id = lid
                   /\ Listener(lid)'.options = last'.options
                   /\ last'.returned = {Listener(lid)'}
        /\ \A id \in ListenerIds :
             (last'.op = "Remove" /\ last'.ret = "ok" /\ Remove(id))
                => ListenerRet(id)' = "NotFoundError"
      ]_vars

\* A listener has just been removed and its id is no longer found, while
\* another listener is still found.
C11_Witness ==
    /\ last.op = "Remove" /\ last.ret = "ok"
    /\ \E id \in ListenerIds : id <= nextListener /\ ListenerRet(id) = "NotFoundError"
    /\ \E id \in DOMAIN tcpRepo : ListenerRet(id) = "ok"

\* C12: Remove(id) of a stored listener deletes that listener from the
\* repository that owns it and nothing else: the other listener repository,
\* every other listener record, the server repository and the Servers keep
\* their values; Remove(id) of an id stored nowhere returns an error and
\* changes nothing.
C12_RemoveFrame ==
    [][\A id \in ListenerIds :
         (last'.op = "Remove" /\ Remove(id))
            => /\ httpServerRepo' = httpServerRepo
               /\ srvState' = srvState /\ launched' = launched
               /\ IF id \in DOMAIN httpRepo
                  THEN /\ last'.ret = "ok"
                       /\ OneMore(httpRepo', httpRepo, id)
                       /\ tcpRepo' = tcpRepo
                  ELSE IF id \in DOMAIN tcpRepo
                  THEN /\ last'.ret = "ok"
                       /\ OneMore(tcpRepo', tcpRepo, id)
                       /\ httpRepo' = httpRepo
                  ELSE /\ last'.ret = "NotFoundError"
                       /\ UNCHANGED repos]_vars

\* A TCP listener has just been removed while an HTTP listener and its
\* Server stay stored.
C12_Witness ==
    /\ last.op = "Remove" /\ last.ret = "ok" /\ last.branch = TCP
    /\ DOMAIN httpRepo # {} /\ DOMAIN httpServerRepo # {}
    /\ \E id \in ListenerIds : id <= nextListener /\ ~Stored(id)

\* C13: DefaultOptions(protocol), for every supported protocol, hands its
\* caller the option pairs in strictly ascending lexicographic order of the
\* keys.
C13_DefaultOptionsSorted ==
    (last.op = "DefaultOptions" /\ last.ret = "ok") => StrictlyAscending(last.keys)

\* C14: ListenerByName(name) probes the HTTP repository before the TCP
\* repository: a listener of the HTTP repository is returned when both hold
\* the name, the holder's listener when one holds it, and an error only when
\* neither holds it; the call changes no state.
C14_ByNameHTTPFirst ==
    [][\A name \in NameInputs :
         (last'.op = "ListenerByName" /\ ListenerByName(name))
            => /\ UNCHANGED <<repos, srvState, launched>>
               /\ IF \E i \in DOMAIN httpRepo : httpRepo[i].name = name
                  THEN /\ last'.ret = "ok"
                       /\ \E i \in DOMAIN httpRepo :
                             httpRepo[i].name = name /\ last'.returned = {httpRepo[i]}
                  ELSE IF \E i \in DOMAIN tcpRepo : tcpRepo[i].name = name
                  THEN /\ last'.ret = "ok"
                       /\ \E i \in DOMAIN tcpRepo :
                             tcpRepo[i].name = name /\ last'.returned = {tcpRepo[i]}
                  ELSE /\ last'.ret = "NotFoundError"
                       /\ last'.returned = {}]_vars

\* Both repositories hold a listener of the name looked up, and the HTTP one
\* was returned.
C14_Witness ==
    /\ last.op = "ListenerByName" /\ last.ret = "ok" /\ last.branch = HTTP
    /\ \E l \in last.returned :
          /\ l \in { httpRepo[i] : i \in DOMAIN httpRepo }
          /\ \E i \in DOMAIN tcpRepo : tcpRepo[i].name = l.name

OptionsReplaced(repo, repoAfter, id, options) ==
    /\ DOMAIN repoAfter = DOMAIN repo
    /\ \A i \in DOMAIN repo \ {id} : repoAfter[i] = repo[i]
    /\ repoAfter[id].options = options
    /\ repoAfter[id].id = repo[id].id
    /\ repoAfter[id].name = repo[id].name
    /\ repoAfter[id].protocol = repo[id].protocol
    /\ repoAfter[id].server = repo[id].server

\* C16: SetOptions(id, newOptions) of a stored listener replaces the option
\* map of that record in the repository that owns it and changes nothing
\* else: every other listener record, the server repository and every
\* Server's running state stay as they were; for an id stored nowhere it
\* returns an error and changes nothing.
C16_SetOptionsFrame ==
    [][\A id \in ListenerIds, options \in OptionUpdates :
         (last'.op = "SetOptions" /\ SetOptions(id, options))
            => /\ httpServerRepo' = httpServerRepo
               /\ srvState' = srvState /\ launched' = launched
               /\ IF id \in DOMAIN httpRepo
                  THEN /\ last'.ret = "ok"
                       /\ OptionsReplaced(httpRepo, httpRepo', id, options)
                       /\ tcpRepo' = tcpRepo
                  ELSE IF id \in DOMAIN tcpRepo
                  THEN /\ last'.ret = "ok"
                       /\ OptionsReplaced(tcpRepo, tcpRepo', id, options)
                       /\ httpRepo' = httpRepo
                  ELSE /\ last'.ret = "NotFoundError"
                       /\ UNCHANGED repos]_vars

\* The options of a TCP listener have just been replaced while an HTTP
\* listener, whose Server is Running, keeps the options it was created with.
C16_Witness ==
    /\ last.op = "SetOptions" /\ last.ret = "ok" /\ last.branch = TCP
    /\ \E i \in DOMAIN tcpRepo : tcpRepo[i].options = last.options
    /\ \E j \in DOMAIN httpRepo :
          /\ httpRepo[j].options \in OptionInputs
          /\ srvState[httpRepo[j].server] = "Running"

\* C17: once Stop(id) has returned success for an HTTP listener, its Server
\* is Stopped and does not become Running before a later Start(id) or
\* Restart(id): the step that follows the successful Stop leaves the Server
\* Stopped (a Start or Restart call only launches a routine).
C17_StoppedUntilStarted ==
    [][\A s \in ServerIds :
         (last.op = "Stop" /\ last.ret = "ok" /\ last.server = s)
            => /\ srvState[s] = "Stopped"
               /\ srvState'[s] = "Stopped"]_vars

\* A successful Restart of the listener bound to Server s has just returned.
RestartReturned(s) ==
    last.op = "Restart" /\ last.ret = "ok" /\ last.server = s

\* A further Start or Stop call, or a Restart call that did not return
\* success, has been made (a further successful Restart is the case of the
\* claim again).
LaterLifecycleCall ==
    \/ last.op \in {"Start", "Stop"}
    \/ last.op = "Restart" /\ last.ret # "ok"

\* A start routine of Server s has just run and failed.
RoutineFailed(s) ==
    last.op = "server.Start" /\ last.ret = "failed" /\ last.server = s

\* C18 as stated: after a successful Restart, with the start routine fairly
\* scheduled and no further lifecycle call, the Server is eventually Running.
C18_RestartEventuallyRunning ==
    \A s \in ServerIds :
       RestartReturned(s) ~> (srvState[s] = "Running" \/ LaterLifecycleCall)

\* C18: a successful Restart has stopped the Server before it launched the
\* one new start routine; then, with the start routine fairly scheduled and
\* no further lifecycle call, eventually the Server is Running or a start
\* routine of it has run and failed.
C18_RestartStopsThenLaunches ==
    /\ [][\A s \in ServerIds :
            (last'.op = "Restart" /\ last'.ret = "ok" /\ last'.server = s)
               => /\ srvState'[s] = "Stopped"
                  /\ launched'[s] = launched[s] + 1]_vars
    /\ \A s \in ServerIds :
          RestartReturned(s)
             ~> (srvState[s] = "Running" \/ RoutineFailed(s) \/ LaterLifecycleCall)

\* A Restart has just returned success: the Server is Stopped and its new
\* start routine is launched and has not run yet.
C18_Witness ==
    \E s \in ServerIds :
       RestartReturned(s) /\ srvState[s] = "Stopped" /\ launched[s] = 1

\* C19: a Start or Restart call on an HTTP listener launches one start
\* routine when it returns success, whether or not the Server is Running,
\* and none when it returns an error; no other step of the service launches
\* a routine, whatever became of the routines launched before.
C19_OneLaunchPerSuccessfulCall ==
    [][
        /\ \A s \in ServerIds :
             (last'.op \in {"Start", "Restart"} /\ last'.branch = HTTP
                /\ last'.ret = "ok" /\ last'.server = s)
                => launched' = [launched EXCEPT ![s] = @ + 1]
        /\ (last'.op \in {"Start", "Restart"}
              /\ (last'.ret # "ok" \/ last'.branch # HTTP))
             => launched' = launched
        /\ (last'.op \notin {"Start", "Restart"})
             => \A s \in ServerIds : launched'[s] <= launched[s]
      ]_vars

\* Start has returned success for a listener whose Server was Running, and
\* has launched a routine.
C19_Witness ==
    /\ last.op = "Start" /\ last.ret = "ok" /\ last.branch = HTTP
    /\ srvState[last.server] = "Running"
    /\ launched[last.server] = 1

\* No listener of the HTTP repository is bound to the stored Server s.
Orphaned(s) ==
    /\ s \in DOMAIN httpServerRepo
    /\ \A i \in DOMAIN httpRepo : httpRepo[i].server # s

\* C20: after Remove(id) has succeeded for an HTTP listener no call reaches
\* the bound Server any more, so the Server keeps the running state it had
\* at the moment of removal for the rest of the execution.
C20_RemovedServerKeepsState ==
    [][\A s \in ServerIds : Orphaned(s) => srvState'[s] = srvState[s]]_vars

====
